---- MODULE Spec2Model ----
(***************************************************************************)
(* Model of the LND REST client (backend/py/lnd_client.py) and of its two  *)
(* command-line entry points: the JSON client tool (lnd_client.py run as   *)
(* __main__) and the interactive invoice tool (create_invoice.py).         *)
(*                                                                         *)
(* One behaviour is one run of one of the two programs.  The command line, *)
(* the credential files, the lines typed on standard input and the replies *)
(* of the remote node are the environment: they are drawn from small sets. *)
(***************************************************************************)
EXTENDS Integers, Sequences, FiniteSets, TLC

VARIABLES
    prog,        \* which program runs: "json" (lnd_client.py) or "interactive"
    argv,        \* the raw command line: [command, amount, memo]
    scheme,      \* scheme of self.api_endpoint (LND_REST_API), "https" by default
    fs,          \* the credential files on disk: [macaroon, cert]
    fsChanges,   \* how often the files changed during the run
    pc,          \* position of the running program
    args,        \* the argparse namespace: [amount, memo]
    req,         \* the frame of LNDClient._request in progress
    exc,         \* the exception in flight, NoExc when there is none
    stdout,      \* what was printed to standard output, in order
    stderr,      \* what was printed to standard error, in order
    exitStatus,  \* exit status of the process, -1 while it runs
    httpLog,     \* every invocation of requests.request, in order
    wire,        \* number of HTTP requests the node has answered
    macReads     \* number of times the macaroon file was opened

vars == << prog, argv, scheme, fs, fsChanges, pc, args, req, exc, stdout,
           stderr, exitStatus, httpLog, wire, macReads >>

-----------------------------------------------------------------------------
(* Bounds of the model *)

MaxAmount == 1
MaxFsChanges == 1

Amounts == (0 - MaxAmount)..MaxAmount

-----------------------------------------------------------------------------
(* Python values *)

None == [some |-> FALSE, v |-> 0, s |-> ""]
SomeInt(n) == [some |-> TRUE, v |-> n, s |-> ""]
SomeStr(t) == [some |-> TRUE, v |-> 0, s |-> t]

\* bool(x) of an Optional[int]: None and 0 are falsy
TruthyInt(x) == x.some /\ x.v # 0
\* bool(x) of an Optional[str]: None and "" are falsy
TruthyStr(x) == x.some /\ x.s # ""

NoExc == [type |-> "none", context |-> "none"]
Raise(t) == [type |-> t, context |-> "none"]
\* an exception raised while another one is being handled keeps it as __context__
RaiseDuring(t, e) == [type |-> t, context |-> e.type]

\* open() of a missing or unreadable file
FilesystemErrors == {"FileNotFoundError", "PermissionError", "OSError"}
\* requests.request failing before any response exists
TransportErrors == {"ConnectionError", "SSLError"}
\* the subclasses of requests.exceptions.RequestException
RequestExceptions == TransportErrors \cup {"HTTPError", "JSONDecodeError"}

-----------------------------------------------------------------------------
(* base64.b64decode(s).hex(), on sequences of one-character strings *)

B64Alphabet ==
    << "A","B","C","D","E","F","G","H","I","J","K","L","M","N","O","P",
       "Q","R","S","T","U","V","W","X","Y","Z","a","b","c","d","e","f",
       "g","h","i","j","k","l","m","n","o","p","q","r","s","t","u","v",
       "w","x","y","z","0","1","2","3","4","5","6","7","8","9","+","/" >>

HexDigits ==
    << "0","1","2","3","4","5","6","7","8","9","a","b","c","d","e","f" >>

\* a table looked up without the shift to zero-based values
B64IndexOneBased(c) == CHOOSE i \in 1..Len(B64Alphabet) : B64Alphabet[i] = c

B64Index(c) == (CHOOSE i \in 1..Len(B64Alphabet) : B64Alphabet[i] = c) - 1

IsB64Char(c) == \E i \in 1..Len(B64Alphabet) : B64Alphabet[i] = c

\* the data characters: everything up to the first "="; b64decode is called
\* without validate, so characters outside the alphabet are discarded
RECURSIVE B64Data(_)
B64Data(s) ==
    IF s = << >> \/ Head(s) = "=" THEN << >>
    ELSE IF IsB64Char(Head(s)) THEN << Head(s) >> \o B64Data(Tail(s))
    ELSE B64Data(Tail(s))

B64Pads(s) == Len(SelectSeq(s, LAMBDA c : c = "="))

\* binascii.a2b_base64 accepts the string when the padding completes the
\* last quantum; otherwise it raises binascii.Error
B64Valid(s) ==
    LET n == Len(B64Data(s)) IN
    /\ \/ n % 4 = 0 /\ B64Pads(s) = 0
       \/ n % 4 = 2 /\ B64Pads(s) = 2
       \/ n % 4 = 3 /\ B64Pads(s) = 1

RECURSIVE B64Bytes(_)
B64Bytes(d) ==
    IF Len(d) < 2 THEN << >>
    ELSE LET a == B64Index(d[1])
             b == B64Index(d[2])
             c == IF Len(d) >= 3 THEN B64Index(d[3]) ELSE 0
             e == IF Len(d) >= 4 THEN B64Index(d[4]) ELSE 0
             bits == ((a * 64 + b) * 64 + c) * 64 + e
             b1 == bits \div 65536
             b2 == (bits \div 256) % 256
             b3 == bits % 256
         IN  IF Len(d) = 2 THEN << b1 >>
             ELSE IF Len(d) = 3 THEN << b1, b2 >>
             ELSE << b1, b2, b3 >> \o B64Bytes(SubSeq(d, 5, Len(d)))

RECURSIVE BytesHex(_)
BytesHex(bs) ==
    IF bs = << >> THEN << >>
    ELSE << HexDigits[(Head(bs) \div 16) + 1], HexDigits[(Head(bs) % 16) + 1] >>
         \o BytesHex(Tail(bs))

B64DecodeHex(s) == BytesHex(B64Bytes(B64Data(s)))

-----------------------------------------------------------------------------
(* The replies of the node.  A reply is a status and a body text; the body  *)
(* texts are the ones below, and response.json() parses them.               *)

RHashGood == << "A","A","E","C","A","w","=","=" >>
RHashOther == << "/","+","8","=" >>
RHashBad == << "A","A","E" >>

JsonDict(ks, al, pr, rh, ai) ==
    [kind |-> "dict", keys |-> ks, alias |-> al, payment_request |-> pr,
     r_hash |-> rh, add_index |-> ai]
JsonList == [kind |-> "list", keys |-> {}, alias |-> "", payment_request |-> "",
             r_hash |-> << >>, add_index |-> ""]

BodyInfo == "{\"alias\": \"testnode\", \"version\": \"0.17\"}"
BodyInvoice == "{\"payment_request\": \"lnbc1\", \"r_hash\": \"AAECAw==\", \"add_index\": \"7\"}"
BodyInvoiceBadHash == "{\"payment_request\": \"lnbc1\", \"r_hash\": \"AAE\"}"
BodyInvoiceEmptyPr == "{\"payment_request\": \"\", \"r_hash\": \"/+8=\"}"
BodyInvoiceLongPr == "{\"payment_request\": \"lnbc1...(longer than a QR code holds)\", \"r_hash\": \"AAECAw==\"}"
BodyError == "{\"error\": \"permission denied\", \"code\": 2}"
BodyList == "[]"
BodyHtml == "<html>Bad Gateway</html>"

Bodies == { BodyInfo, BodyInvoice, BodyInvoiceBadHash,
            BodyInvoiceEmptyPr, BodyInvoiceLongPr, BodyError, BodyList, BodyHtml }

\* 3xx is a redirection status without a Location header, which the HTTP
\* library hands back as the response instead of following it
Statuses == { 200, 300, 404, 500 }

LongPr == "lnbc1...(longer than a QR code holds)"

\* response.json(): ValueError (requests.exceptions.JSONDecodeError) when the
\* text is no JSON document
IsJson(text) == text # BodyHtml

ParseJson(text) ==
    CASE text = BodyInfo ->
           JsonDict({"alias", "version"}, "testnode", "", << >>, "")
      [] text = BodyInvoice ->
           JsonDict({"payment_request", "r_hash", "add_index"}, "", "lnbc1", RHashGood, "7")
      [] text = BodyInvoiceBadHash ->
           JsonDict({"payment_request", "r_hash"}, "", "lnbc1", RHashBad, "")
      [] text = BodyInvoiceEmptyPr ->
           JsonDict({"payment_request", "r_hash"}, "", "", RHashOther, "")
      [] text = BodyInvoiceLongPr ->
           JsonDict({"payment_request", "r_hash"}, "", LongPr, RHashGood, "")
      [] text = BodyError ->
           JsonDict({"error", "code"}, "", "", << >>, "")
      [] text = BodyList -> JsonList

\* dict.get(key, default) of the text-valued keys
GetAlias(d, default) == IF "alias" \in d.keys THEN d.alias ELSE default
GetAddIndex(d, default) == IF "add_index" \in d.keys THEN d.add_index ELSE default
\* invoice.get('payment_request'): None when the key is absent
GetPaymentRequest(d) ==
    IF "payment_request" \in d.keys THEN SomeStr(d.payment_request) ELSE None

\* qrcode raises DataOverflowError when the data exceeds the largest symbol
QrFits(data) == data # LongPr

-----------------------------------------------------------------------------
(* LNDClient *)

NoData == [some |-> FALSE, value |-> 0, memo |-> ""]
NoJson == [kind |-> "none", keys |-> {}, alias |-> "", payment_request |-> "",
           r_hash |-> << >>, add_index |-> ""]

\* the frame of _request: st is the position in it, bound says whether the
\* local variable `response` has been assigned
IdleReq ==
    [st |-> "idle", method |-> "", endpoint |-> "", data |-> NoData,
     bound |-> FALSE, status |-> 0, text |-> "", ret |-> NoJson]

Call(method, endpoint, data) ==
    [IdleReq EXCEPT !.st = "headers", !.method = method, !.endpoint = endpoint,
                    !.data = data]

\* get_info
GetInfoCall == Call("GET", "/v1/getinfo", NoData)

\* add_invoice: data = {"value": amount, "memo": memo}
\* a client that refuses to send a negative amount
InvoiceDataClamped(amount, memo) ==
    [some |-> TRUE, value |-> IF amount < 0 THEN 0 ELSE amount, memo |-> memo]

InvoiceData(amount, memo) == [some |-> TRUE, value |-> amount, memo |-> memo]
AddInvoiceCall(amount, memo) == Call("POST", "/v1/invoices", InvoiceData(amount, memo))

\* open(self.macaroon_path, 'rb')
OpenError(state) ==
    IF state = "missing" THEN "FileNotFoundError" ELSE "PermissionError"

\* _request calls get_headers before the try block: when open() fails the
\* error leaves _request at once
\* get_headers swallowing the error and sending no macaroon
HeadersNextSwallow(state) == "send"

HeadersNext(state) == IF state = "ok" THEN "send" ELSE "raised"

get_headers ==
    /\ req.st = "headers"
    /\ macReads' = macReads + 1
    /\ req' = [req EXCEPT !.st = HeadersNext(fs.macaroon)]
    /\ exc' = IF fs.macaroon = "ok" THEN exc ELSE Raise(OpenError(fs.macaroon))
    /\ UNCHANGED << prog, argv, scheme, fs, fsChanges, pc, args, stdout, stderr,
                    exitStatus, httpLog, wire >>

LogEntry ==
    [method |-> req.method, url |-> << scheme, req.endpoint >>, json |-> req.data,
     macaroon |-> TRUE, verify |-> "cert_path"]

\* requests.request(..., verify=self.cert_path) finds the certificate bundle
\* missing: OSError, raised before a connection is opened.  The bundle is
\* looked at for https URLs only.
request_no_cert ==
    /\ req.st = "send"
    /\ scheme = "https" /\ fs.cert = "missing"
    /\ httpLog' = Append(httpLog, LogEntry)
    /\ exc' = Raise("OSError")
    /\ req' = [req EXCEPT !.st = "raised"]
    /\ UNCHANGED << prog, argv, scheme, fs, fsChanges, pc, args, stdout, stderr,
                    exitStatus, wire, macReads >>

\* requests.request fails at transport level: no response object exists.  An
\* unreadable certificate bundle is one of the ways the TLS setup fails.
request_transport_failure ==
    /\ req.st = "send"
    /\ ~(scheme = "https" /\ fs.cert = "missing")
    /\ \E e \in TransportErrors :
          /\ e = "SSLError" => scheme = "https"
          /\ (scheme = "https" /\ fs.cert = "unreadable") => e = "SSLError"
          /\ exc' = Raise(e)
    /\ httpLog' = Append(httpLog, LogEntry)
    /\ req' = [req EXCEPT !.st = "except"]
    /\ UNCHANGED << prog, argv, scheme, fs, fsChanges, pc, args, stdout, stderr,
                    exitStatus, wire, macReads >>

\* requests.request returns a response
request_response ==
    /\ req.st = "send"
    /\ ~(scheme = "https" /\ fs.cert \in {"missing", "unreadable"})
    /\ \E status \in Statuses, text \in Bodies :
          req' = [req EXCEPT !.st = "status", !.bound = TRUE, !.status = status,
                             !.text = text]
    /\ httpLog' = Append(httpLog, LogEntry)
    /\ wire' = wire + 1
    /\ UNCHANGED << prog, argv, scheme, fs, fsChanges, pc, args, exc, stdout,
                    stderr, exitStatus, macReads >>

\* response.raise_for_status() raises HTTPError for 4xx and 5xx
\* a check that lets client errors through
IsErrorStatusServerOnly(status) == status >= 500 /\ status < 600

IsErrorStatus(status) == status >= 400 /\ status < 600

raise_for_status ==
    /\ req.st = "status"
    /\ IF IsErrorStatus(req.status)
       THEN /\ exc' = Raise("HTTPError")
            /\ req' = [req EXCEPT !.st = "except"]
       ELSE /\ exc' = exc
            /\ req' = [req EXCEPT !.st = "json"]
    /\ UNCHANGED << prog, argv, scheme, fs, fsChanges, pc, args, stdout, stderr,
                    exitStatus, httpLog, wire, macReads >>

\* return response.json()
response_json ==
    /\ req.st = "json"
    /\ IF IsJson(req.text)
       THEN /\ exc' = exc
            /\ req' = [req EXCEPT !.st = "returned", !.ret = ParseJson(req.text)]
       ELSE /\ exc' = Raise("JSONDecodeError")
            /\ req' = [req EXCEPT !.st = "except"]
    /\ UNCHANGED << prog, argv, scheme, fs, fsChanges, pc, args, stdout, stderr,
                    exitStatus, httpLog, wire, macReads >>

ErrLine(tag, arg) == [tag |-> tag, arg |-> arg]

\* where the handler goes after printing: it only ever re-raises
\* a handler that reissues the request instead of re-raising
ExceptNextRetry(e) == "send"

ExceptNext(e) == "raised"

\* except requests.exceptions.RequestException as e: the handler prints the
\* error, reads `response` and re-raises.  Reading `response` when
\* requests.request raised before assigning it is an UnboundLocalError.
request_except ==
    /\ req.st = "except"
    /\ IF req.bound
       THEN /\ stderr' = stderr \o << ErrLine("Error connecting to LND", exc.type),
                                      ErrLine("Response", req.text) >>
            /\ exc' = exc
       ELSE /\ stderr' = Append(stderr, ErrLine("Error connecting to LND", exc.type))
            /\ exc' = RaiseDuring("UnboundLocalError", exc)
    /\ req' = [req EXCEPT !.st = ExceptNext(exc)]
    /\ UNCHANGED << prog, argv, scheme, fs, fsChanges, pc, args, stdout,
                    exitStatus, httpLog, wire, macReads >>

_request ==
    \/ get_headers
    \/ request_no_cert
    \/ request_transport_failure
    \/ request_response
    \/ raise_for_status
    \/ response_json
    \/ request_except

-----------------------------------------------------------------------------
(* The command line and the terminal *)

FileStates == {"ok", "missing", "unreadable"}

NoAmount == [tag |-> "absent", v |-> 0]
\* --amount with a value int() rejects
BadAmount == [tag |-> "bad", v |-> 0]
IntAmount(n) == [tag |-> "int", v |-> n]

RawAmounts == {NoAmount, BadAmount} \cup {IntAmount(n) : n \in Amounts}
RawMemos == {None, SomeStr("test")}

\* "" stands for no positional argument, "bogus" for one the parser rejects
Commands == {"info", "invoice", "bogus", "-h"}

Argvs(p) ==
    [command : IF p = "json" THEN Commands ELSE {"", "bogus", "-h"},
     amount : RawAmounts, memo : RawMemos]

\* parser.parse_args(): -h prints the help and exits 0; a positional outside
\* `choices`, an unrecognized argument or a non-integer --amount make
\* parser.error() print the usage to standard error and exit 2
ParseArgs(p, a) ==
    IF a.command = "-h" THEN "help"
    ELSE IF a.amount.tag = "bad" THEN "error"
    ELSE IF p = "json" /\ a.command \notin {"info", "invoice"} THEN "error"
    ELSE IF p = "interactive" /\ a.command # "" THEN "error"
    ELSE "ok"

Namespace(a, defaultMemo) ==
    [amount |-> IF a.amount.tag = "int" THEN SomeInt(a.amount.v) ELSE None,
     memo |-> IF a.memo.some THEN a.memo ELSE defaultMemo]

JsonOut(keys) ==
    [kind |-> "json", tag |-> "", keys |-> keys, arg |-> "", hex |-> << >>]
TextOut(tag, arg) ==
    [kind |-> "text", tag |-> tag, keys |-> {}, arg |-> arg, hex |-> << >>]
HexOut(tag, hex) ==
    [kind |-> "text", tag |-> tag, keys |-> {}, arg |-> "", hex |-> hex]

\* input(): a line of standard input, or EOFError at end of input
EndOfInput == [eof |-> TRUE, text |-> ""]
Line(t) == [eof |-> FALSE, text |-> t]
AmountLines == {EndOfInput, Line(""), Line("abc")} \cup {Line(ToString(n)) : n \in Amounts}
MemoLines == {EndOfInput, Line(""), Line("test")}

\* int(val): ValueError unless the text is an integer literal
IsIntText(t) == \E n \in Amounts : ToString(n) = t
IntOf(t) == CHOOSE n \in Amounts : ToString(n) = t

parse_args ==
    /\ pc = "parse"
    /\ LET r == ParseArgs(prog, argv) IN
       /\ pc' = IF r = "ok" THEN (IF prog = "json" THEN "j_dispatch" ELSE "i_amount")
                ELSE "done"
       /\ args' = IF r # "ok" THEN args
                  ELSE Namespace(argv, IF prog = "json" THEN SomeStr("Donation") ELSE None)
       /\ stdout' = IF r = "help" THEN Append(stdout, TextOut("usage", "help")) ELSE stdout
       /\ stderr' = IF r = "error" THEN Append(stderr, ErrLine("usage", "error")) ELSE stderr
       /\ exitStatus' = IF r = "help" THEN 0 ELSE IF r = "error" THEN 2 ELSE exitStatus
    /\ UNCHANGED << prog, argv, scheme, fs, fsChanges, req, exc, httpLog, wire, macReads >>

-----------------------------------------------------------------------------
(* lnd_client.py run as a program: the JSON client tool *)

\* `except Exception` does not catch SystemExit, a BaseException
\* a bare `except:`, which catches SystemExit too
CaughtByBareExcept(type) == TRUE
\* a handler for the HTTP library's errors only
CaughtRequestExceptionOnly(type) == type \in RequestExceptions

CaughtByExceptException(type) == type # "SystemExit"

\* if not args.amount
AmountMissing(amount) == ~TruthyInt(amount)

json_dispatch ==
    /\ prog = "json" /\ pc = "j_dispatch"
    /\ IF argv.command = "info"
       THEN /\ req' = GetInfoCall
            /\ pc' = "j_info"
            /\ UNCHANGED << stdout, exc >>
       ELSE IF AmountMissing(args.amount)
       THEN \* print the error, then sys.exit(1) inside the try block
            /\ stdout' = Append(stdout, JsonOut({"error"}))
            /\ exc' = Raise("SystemExit")
            /\ pc' = "j_except"
            /\ req' = req
       ELSE /\ req' = AddInvoiceCall(args.amount.v, args.memo.s)
            /\ pc' = "j_invoice"
            /\ UNCHANGED << stdout, exc >>
    /\ UNCHANGED << prog, argv, scheme, fs, fsChanges, args, stderr, exitStatus,
                    httpLog, wire, macReads >>

\* print(json.dumps(info))
json_info ==
    /\ prog = "json" /\ pc = "j_info" /\ req.st = "returned"
    /\ stdout' = Append(stdout, JsonOut(req.ret.keys))
    /\ exitStatus' = 0
    /\ pc' = "done"
    /\ UNCHANGED << prog, argv, scheme, fs, fsChanges, args, req, exc, stderr,
                    httpLog, wire, macReads >>

json_invoice ==
    /\ prog = "json" /\ pc = "j_invoice" /\ req.st = "returned"
    /\ LET invoice == req.ret
           payment_request == GetPaymentRequest(invoice) IN
       IF invoice.kind # "dict"
       THEN \* invoice.get on a value that is no dict
            /\ exc' = Raise("AttributeError")
            /\ pc' = "j_except"
            /\ UNCHANGED << stdout, exitStatus >>
       ELSE IF TruthyStr(payment_request)
       THEN IF QrFits(payment_request.s)
            THEN /\ stdout' = Append(stdout, JsonOut(invoice.keys \cup {"qr_code_base64"}))
                 /\ exitStatus' = 0
                 /\ pc' = "done"
                 /\ exc' = exc
            ELSE /\ exc' = Raise("DataOverflowError")
                 /\ pc' = "j_except"
                 /\ UNCHANGED << stdout, exitStatus >>
       ELSE /\ stdout' = Append(stdout, JsonOut({"error", "response"}))
            /\ exc' = Raise("SystemExit")
            /\ pc' = "j_except"
            /\ exitStatus' = exitStatus
    /\ UNCHANGED << prog, argv, scheme, fs, fsChanges, args, req, stderr,
                    httpLog, wire, macReads >>

\* an exception reaches `except Exception as e`: caught, it is printed as a
\* JSON error and the program exits 1; SystemExit passes through and ends
\* the program with its own status, 1
json_except ==
    /\ prog = "json" /\ pc \in {"j_info", "j_invoice", "j_except"}
    /\ exc # NoExc /\ req.st \in {"idle", "returned", "raised"}
    /\ stdout' = IF CaughtByExceptException(exc.type)
                 THEN Append(stdout, JsonOut({"error"})) ELSE stdout
    /\ exitStatus' = 1
    /\ pc' = "done"
    /\ UNCHANGED << prog, argv, scheme, fs, fsChanges, args, req, exc, stderr,
                    httpLog, wire, macReads >>

json_main == json_dispatch \/ json_info \/ json_invoice \/ json_except

-----------------------------------------------------------------------------
(* create_invoice.py: the interactive invoice tool *)

\* `except Exception as e` around the client calls
\* a handler for the HTTP library's errors only
InteractiveCatchesRequestOnly(type) == type \in RequestExceptions

InteractiveCatches(type) == type # "SystemExit"

\* an exception nothing catches: the interpreter prints the traceback to
\* standard error and the process exits 1
Uncaught(e) ==
    /\ exc' = e
    /\ stderr' = Append(stderr, ErrLine("Traceback", e.type))
    /\ exitStatus' = 1
    /\ pc' = "done"

\* return from main(): the process exits 0
Return ==
    /\ exitStatus' = 0
    /\ pc' = "done"

\* if args.amount is None: prompt for it; only ValueError is handled here
prompt_amount ==
    /\ prog = "interactive" /\ pc = "i_amount"
    /\ IF args.amount.some
       THEN /\ pc' = "i_memo"
            /\ UNCHANGED << args, exc, stdout, stderr, exitStatus >>
       ELSE \E val \in AmountLines :
            IF val.eof
            THEN /\ Uncaught(Raise("EOFError"))
                 /\ UNCHANGED << args, stdout >>
            ELSE IF val.text = ""
            THEN /\ stdout' = Append(stdout, TextOut("Amount is required.", ""))
                 /\ Return
                 /\ UNCHANGED << args, exc, stderr >>
            ELSE IF ~IsIntText(val.text)
            THEN /\ stdout' = Append(stdout, TextOut("Invalid amount.", ""))
                 /\ Return
                 /\ UNCHANGED << args, exc, stderr >>
            ELSE /\ args' = [args EXCEPT !.amount = SomeInt(IntOf(val.text))]
                 /\ pc' = "i_memo"
                 /\ UNCHANGED << exc, stdout, stderr, exitStatus >>
    /\ UNCHANGED << prog, argv, scheme, fs, fsChanges, req, httpLog, wire, macReads >>

\* if args.memo is None: prompt for it, outside every try block
prompt_memo ==
    /\ prog = "interactive" /\ pc = "i_memo"
    /\ IF args.memo.some
       THEN /\ pc' = "i_getinfo"
            /\ UNCHANGED << args, exc, stderr, exitStatus >>
       ELSE \E val \in MemoLines :
            IF val.eof
            THEN /\ Uncaught(Raise("EOFError"))
                 /\ args' = args
            ELSE /\ args' = [args EXCEPT !.memo = SomeStr(val.text)]
                 /\ pc' = "i_getinfo"
                 /\ UNCHANGED << exc, stderr, exitStatus >>
    /\ UNCHANGED << prog, argv, scheme, fs, fsChanges, req, stdout, httpLog, wire,
                    macReads >>

\* lnd = LNDClient(); info = lnd.get_info()
interactive_get_info ==
    /\ prog = "interactive" /\ pc = "i_getinfo"
    /\ req' = GetInfoCall
    /\ pc' = "i_info"
    /\ UNCHANGED << prog, argv, scheme, fs, fsChanges, args, exc, stdout, stderr,
                    exitStatus, httpLog, wire, macReads >>

\* print(f"Connected to LND node: {info.get('alias', 'unknown')}")
interactive_connected ==
    /\ prog = "interactive" /\ pc = "i_info" /\ req.st = "returned"
    /\ IF req.ret.kind # "dict"
       THEN /\ exc' = Raise("AttributeError")
            /\ pc' = "i_except"
            /\ stdout' = stdout
       ELSE /\ stdout' = Append(stdout, TextOut("Connected to LND node", GetAlias(req.ret, "unknown")))
            /\ pc' = "i_create"
            /\ exc' = exc
    /\ UNCHANGED << prog, argv, scheme, fs, fsChanges, args, req, stderr, exitStatus,
                    httpLog, wire, macReads >>

\* print("Creating invoice ..."); invoice = lnd.add_invoice(amount, memo)
interactive_create ==
    /\ prog = "interactive" /\ pc = "i_create"
    /\ stdout' = Append(stdout, TextOut("Creating invoice for", ToString(args.amount.v)))
    /\ req' = AddInvoiceCall(args.amount.v, args.memo.s)
    /\ pc' = "i_invoice"
    /\ UNCHANGED << prog, argv, scheme, fs, fsChanges, args, exc, stderr, exitStatus,
                    httpLog, wire, macReads >>

\* the lines printed from the invoice, up to the first one that raises
InvoiceLines(invoice) ==
    LET header == << TextOut("=== INVOICE CREATED ===", "") >>
        pr == << TextOut("Payment Request", invoice.payment_request) >>
        rest == << HexOut("R Hash (hex)", B64DecodeHex(invoice.r_hash)),
                   TextOut("Add Index", GetAddIndex(invoice, "N/A")),
                   TextOut("=======================", "") >>
    IN  IF invoice.kind # "dict" \/ "payment_request" \notin invoice.keys THEN header
        ELSE IF "r_hash" \notin invoice.keys \/ ~B64Valid(invoice.r_hash) THEN header \o pr
        ELSE header \o pr \o rest

\* the exception the summary raises, "none" when it is printed in full
InvoiceError(invoice) ==
    IF invoice.kind # "dict" THEN "TypeError"
    ELSE IF "payment_request" \notin invoice.keys THEN "KeyError"
    ELSE IF "r_hash" \notin invoice.keys THEN "KeyError"
    ELSE IF ~B64Valid(invoice.r_hash) THEN "binascii.Error"
    ELSE "none"

interactive_result ==
    /\ prog = "interactive" /\ pc = "i_invoice" /\ req.st = "returned"
    /\ stdout' = stdout \o InvoiceLines(req.ret)
    /\ IF InvoiceError(req.ret) = "none"
       THEN /\ Return
            /\ exc' = exc
       ELSE /\ exc' = Raise(InvoiceError(req.ret))
            /\ pc' = "i_except"
            /\ exitStatus' = exitStatus
    /\ UNCHANGED << prog, argv, scheme, fs, fsChanges, args, req, stderr, httpLog,
                    wire, macReads >>

\* except Exception as e: print the error and the hint, then fall off main()
interactive_except ==
    /\ prog = "interactive" /\ pc \in {"i_info", "i_invoice", "i_except"}
    /\ exc # NoExc /\ req.st \in {"returned", "raised"}
    /\ IF InteractiveCatches(exc.type)
       THEN /\ stdout' = stdout \o << TextOut("Error", exc.type),
                                      TextOut("Make sure your LND node is running", "") >>
            /\ Return
            /\ UNCHANGED << exc, stderr >>
       ELSE /\ Uncaught(exc)
            /\ stdout' = stdout
    /\ UNCHANGED << prog, argv, scheme, fs, fsChanges, args, req, httpLog, wire,
                    macReads >>

main ==
    \/ prompt_amount
    \/ prompt_memo
    \/ interactive_get_info
    \/ interactive_connected
    \/ interactive_create
    \/ interactive_result
    \/ interactive_except

-----------------------------------------------------------------------------
(* The environment and the specification *)

\* a credential file appears, disappears or changes its permissions while
\* the program runs
FsChange ==
    /\ pc # "done"
    /\ fsChanges < MaxFsChanges
    /\ \E f \in {"macaroon", "cert"}, st \in FileStates :
          /\ st # fs[f]
          /\ fs' = [fs EXCEPT ![f] = st]
    /\ fsChanges' = fsChanges + 1
    /\ UNCHANGED << prog, argv, scheme, pc, args, req, exc, stdout, stderr,
                    exitStatus, httpLog, wire, macReads >>

Init ==
    /\ prog \in {"json", "interactive"}
    /\ argv \in Argvs(prog)
    /\ scheme \in {"https", "http"}
    /\ fs \in [macaroon : FileStates, cert : FileStates]
    /\ fsChanges = 0
    /\ pc = "parse"
    /\ args = [amount |-> None, memo |-> None]
    /\ req = IdleReq
    /\ exc = NoExc
    /\ stdout = << >>
    /\ stderr = << >>
    /\ exitStatus = -1
    /\ httpLog = << >>
    /\ wire = 0
    /\ macReads = 0

Next ==
    \/ parse_args
    \/ json_main
    \/ main
    \/ _request
    \/ FsChange

Spec == Init /\ [][Next]_vars

-----------------------------------------------------------------------------
(* Properties *)

JsonObjects == SelectSeq(stdout, LAMBDA o : o.kind = "json")
Posts == SelectSeq(httpLog, LAMBDA r : r.method = "POST")
HashLines == SelectSeq(stdout, LAMBDA o : o.tag = "R Hash (hex)")
Tracebacks == SelectSeq(stderr, LAMBDA l : l.tag = "Traceback")

\* the command line passes parse_args
ArgsAccepted ==
    /\ argv.command # "-h"
    /\ argv.amount.tag # "bad"
    /\ prog = "json" => argv.command \in {"info", "invoice"}
    /\ prog = "interactive" => argv.command = ""

\* number of client calls (get_info, add_invoice) started so far in the run
CallsStarted ==
    IF req.st = "idle" THEN 0
    ELSE IF prog = "interactive" /\ req.method = "POST" THEN 2
    ELSE 1

\* C1: when requests.request fails at transport level (no response object
\* exists), the exception that leaves _request is the transport exception
\* itself, unmodified.
C1_TransportErrorUnmodified ==
    [][(req.st = "except" /\ ~req.bound /\ req'.st = "raised") => exc' = exc]_vars

\* C2 as stated: a response with a status outside 2xx never makes _request
\* return a value.
C2_NonSuccessNeverReturns ==
    req.st = "returned" => req.status \in 200..299

\* C2 as amended: a response with a 4xx or 5xx status never makes _request
\* return a value; _request raises the HTTPError, after printing the error
\* and the response body text to standard error.
C2_ErrorStatusRaises ==
    /\ req.st \in {"json", "returned"} => req.status \notin 400..599
    /\ (req.st = "raised" /\ req.bound /\ req.status \in 400..599) =>
          /\ exc.type = "HTTPError"
          /\ Len(stderr) >= 2
          /\ stderr[Len(stderr) - 1] = ErrLine("Error connecting to LND", "HTTPError")
          /\ stderr[Len(stderr)] = ErrLine("Response", req.text)

C2_Witness ==
    /\ req.st = "raised" /\ req.bound /\ req.status = 404
    /\ exc.type = "HTTPError"
    /\ req.text = BodyError

\* C3 as stated: when the macaroon file or the certificate file is missing
\* or unreadable, the call fails with a filesystem error and no network
\* request has been sent when the error is raised.
C3_MissingCredentialFailsBeforeNetwork ==
    [][/\ (req.st = "headers" /\ fs.macaroon # "ok" /\ req' # req) =>
             /\ req'.st = "raised" /\ exc'.type \in FilesystemErrors
             /\ httpLog' = httpLog /\ wire' = wire
       /\ (req.st = "send" /\ fs.cert # "ok" /\ req' # req) =>
             /\ req'.st = "raised" /\ exc'.type \in FilesystemErrors
             /\ wire' = wire]_vars

\* C3 as amended: when the macaroon file is missing or unreadable, the call
\* fails with a filesystem error before requests.request is invoked; a
\* missing certificate file is found by the HTTP call itself, for an https
\* endpoint only, which then raises OSError before any request is sent.
C3_MissingMacaroonFailsBeforeNetwork ==
    [][/\ (req.st = "headers" /\ fs.macaroon # "ok" /\ req' # req) =>
             /\ req'.st = "raised" /\ exc'.type \in FilesystemErrors
             /\ httpLog' = httpLog /\ wire' = wire
       /\ (req.st = "send" /\ scheme = "https" /\ fs.cert = "missing" /\ req' # req) =>
             /\ req'.st = "raised" /\ exc'.type \in FilesystemErrors
             /\ wire' = wire]_vars

C3_Witness ==
    /\ req.st = "raised" /\ req.method = "POST"
    /\ exc.type = "FileNotFoundError"
    /\ fs.macaroon = "missing"
    /\ macReads = 2 /\ Len(httpLog) = 1

\* C4: the JSON tool run as "invoice" without --amount prints exactly one
\* JSON object, which has an "error" key, exits 1 and never calls the node.
C4_InvoiceWithoutAmount ==
    (prog = "json" /\ argv.command = "invoice" /\ argv.amount.tag = "absent") =>
        /\ httpLog = << >> /\ wire = 0 /\ macReads = 0
        /\ pc = "done" =>
              /\ Len(stdout) = 1
              /\ stdout[1].kind = "json" /\ "error" \in stdout[1].keys
              /\ exitStatus = 1

C4_Witness ==
    /\ prog = "json" /\ argv.command = "invoice" /\ argv.amount.tag = "absent"
    /\ pc = "done" /\ exitStatus = 1
    /\ exc.type = "SystemExit"
    /\ stdout = << JsonOut({"error"}) >>

\* C5 as stated: every run of the JSON tool ends with exactly one JSON object
\* on standard output and exit status 0 or 1; a failing run exits 1 and its
\* object has an "error" key.
C5_EveryRunOneJson ==
    (prog = "json" /\ pc = "done") =>
        /\ Len(JsonObjects) = 1
        /\ exitStatus \in {0, 1}
        /\ exitStatus = 1 => "error" \in JsonObjects[1].keys

\* C5 as amended: every run of the JSON tool whose command line the parser
\* accepts prints exactly one JSON document and nothing else to standard
\* output; it exits 1, with an "error" key in the document, when it failed
\* and 0 when it succeeded.  A run whose command line the parser rejects
\* prints no JSON and exits 2 (0 for -h).
C5_AcceptedRunOneJson ==
    (prog = "json" /\ pc = "done") =>
        IF ArgsAccepted
        THEN /\ Len(stdout) = 1 /\ stdout[1].kind = "json"
             /\ exitStatus \in {0, 1}
             /\ exitStatus = 1 => "error" \in stdout[1].keys
             /\ exitStatus = 1 <=> exc # NoExc
             /\ exitStatus = 0 => req.st = "returned"
        ELSE /\ Len(JsonObjects) = 0
             /\ exitStatus = IF argv.command = "-h" THEN 0 ELSE 2

C5_Witness ==
    /\ prog = "json" /\ pc = "done" /\ ArgsAccepted
    /\ exitStatus = 1
    /\ exc.type = "UnboundLocalError"
    /\ stdout = << JsonOut({"error"}) >>

\* C6 as stated: every failing run of the interactive tool, whatever the
\* step that fails, ends with exit status 0 and no exception escapes main().
C6_InteractiveNeverEscapes ==
    (prog = "interactive" /\ pc = "done" /\ ArgsAccepted) =>
        exitStatus = 0 /\ Tracebacks = << >>

\* C6 as amended: every failure inside the try block of main() (credential
\* load, info query, invoice creation, hash decoding) is caught, printed to
\* standard output and the run exits 0; an empty or non-integer amount typed
\* at the prompt prints a message and exits 0; end of input at either prompt
\* is an EOFError raised outside the handler, which escapes main().
C6_TryBlockNeverEscapes ==
    (prog = "interactive" /\ pc = "done" /\ ArgsAccepted) =>
        IF exc.type = "EOFError"
        THEN exitStatus = 1 /\ macReads = 0
        ELSE /\ exitStatus = 0 /\ Tracebacks = << >>
             /\ exc # NoExc =>
                   /\ Len(stdout) >= 2
                   /\ stdout[Len(stdout) - 1] = TextOut("Error", exc.type)

C6_Witness ==
    /\ prog = "interactive" /\ pc = "done"
    /\ exitStatus = 0
    /\ exc.type = "FileNotFoundError"
    /\ stdout = << TextOut("Error", "FileNotFoundError"),
                   TextOut("Make sure your LND node is running", "") >>

\* C7: in the interactive tool the info query is issued before the
\* invoice-creation request, which is issued only after the info query
\* returned and "Connected to LND node: <alias>" was printed; the hex hash
\* line comes after that line and shows the base64-decoded r_hash
\* ("AAECAw==" prints "00010203").
C7_InfoThenInvoiceThenHash ==
    prog = "interactive" =>
        /\ \A i \in 1..Len(httpLog) :
              httpLog[i].url[2] = (IF i = 1 THEN "/v1/getinfo" ELSE "/v1/invoices")
        /\ (req.method = "POST" \/ HashLines # << >>) =>
              /\ Len(stdout) >= 1
              /\ stdout[1].tag = "Connected to LND node"
              /\ Len(httpLog) >= 1
        /\ \A i \in 1..Len(stdout) :
              stdout[i].tag = "R Hash (hex)" =>
                 /\ i > 1
                 /\ Len(httpLog) = 2
                 /\ req.ret.r_hash = RHashGood =>
                       stdout[i].hex = << "0","0","0","1","0","2","0","3" >>
                 /\ req.ret.r_hash = RHashOther =>
                       stdout[i].hex = << "f","f","e","f" >>
                 /\ req.ret.r_hash \in {RHashGood, RHashOther}

C7_Witness ==
    /\ prog = "interactive" /\ pc = "done"
    /\ Len(stdout) = 7
    /\ stdout[1] = TextOut("Connected to LND node", "testnode")
    /\ stdout[5] = HexOut("R Hash (hex)", << "0","0","0","1","0","2","0","3" >>)
    /\ req.text = BodyInvoice

\* C8: add_invoice(amount, memo) sends one POST to /v1/invoices whose JSON
\* body is {value: amount, memo: memo}, for every amount (zero and negative
\* ones included) and memo, neither of them validated or altered.
C8_InvoiceBodyExact ==
    /\ Len(Posts) <= 1
    /\ (req.method = "POST" /\ req.st \in {"status", "json", "except", "returned"}) =>
          Len(Posts) = 1
    /\ \A i \in 1..Len(httpLog) :
          httpLog[i].method = "POST" =>
             /\ httpLog[i].url[2] = "/v1/invoices"
             /\ args.amount.some /\ args.memo.some
             /\ httpLog[i].json = [some |-> TRUE, value |-> args.amount.v,
                                   memo |-> args.memo.s]
             /\ argv.amount.tag = "int" => httpLog[i].json.value = argv.amount.v
             /\ argv.memo.some => httpLog[i].json.memo = argv.memo.s

C8_Witness ==
    /\ Len(httpLog) = 2
    /\ httpLog[2].method = "POST"
    /\ httpLog[2].json = [some |-> TRUE, value |-> 0 - 1, memo |-> ""]
    /\ req.st = "returned"

\* C9: every call to get_info or add_invoice opens the macaroon file exactly
\* once and invokes the HTTP library at most once: nothing is retried and
\* nothing is cached, so an interactive run that issues the invoice-creation
\* request has read the macaroon twice and made two HTTP requests.
C9_OneReadOneRequestPerCall ==
    /\ macReads = (IF req.st = "headers" THEN CallsStarted - 1 ELSE CallsStarted)
    /\ Len(httpLog) <= (IF req.st \in {"headers", "send"} THEN CallsStarted - 1
                        ELSE CallsStarted)
    /\ wire <= Len(httpLog)
    /\ (prog = "interactive" /\ Posts # << >>) => macReads = 2 /\ Len(httpLog) = 2

C9_Witness ==
    /\ prog = "interactive" /\ pc = "done"
    /\ macReads = 2 /\ Len(httpLog) = 2 /\ wire = 1
    /\ exc.context = "ConnectionError"

\* C10: in the JSON tool run as "invoice", the "Amount is required" error is
\* produced exactly when --amount was not supplied; every supplied integer,
\* 0 and negative ones included, is sent to the node.
C10_AmountErrorIffAbsent ==
    (prog = "json" /\ argv.command = "invoice" /\ argv.amount.tag # "bad"
       /\ pc = "done") =>
        /\ (macReads = 0 /\ stdout = << JsonOut({"error"}) >>)
              <=> argv.amount.tag = "absent"
        /\ (argv.amount.tag = "int" /\ fs.macaroon = "ok" /\ fsChanges = 0) =>
              /\ Len(httpLog) = 1
              /\ httpLog[1].json.value = argv.amount.v

====
